---------------------------- MODULE Spec2Model ----------------------------
(***************************************************************************)
(* Model of accounts/static/accounts/js/password-toggle.js: the IIFE that  *)
(* schedules init, the forEach pass of init over the password inputs of    *)
(* the document, and the click handler bound to every toggle button.       *)
(*                                                                         *)
(* The document is a tree: `children` gives, for every container element,  *)
(* the sequence of its child nodes.  Nodes are pairs <<kind, n>>.  The     *)
(* page owns the body, one nested container (a form) and the inputs; init  *)
(* creates the wrappers (div.password-input-wrap) and the buttons          *)
(* (button.pw-toggle, with its two svg icons kept as fields of the button).*)
(*                                                                         *)
(* JavaScript runs every callback to completion, so no event is taken      *)
(* while a pass of init is between two statements (pc # "idle").  The pass *)
(* itself is modelled statement by statement, one step per mutation of the *)
(* document, in the order of the source.                                   *)
(***************************************************************************)
EXTENDS Naturals, Sequences, FiniteSets, TLC

\* ----- bounds of the model
NInputs == 2      \* input elements the page owns
MaxEvals == 2     \* evaluations of the script (the <script> included that often)
MaxClicks == 2    \* clicks the user makes

VARIABLES
  readyState,   \* document.readyState
  dclFired,     \* the DOMContentLoaded event has been dispatched
  dclListeners, \* DOMContentLoaded listeners, in registration order (one init per evaluation)
  sched,        \* per evaluation: "none" | "deferred" | "immediate"
  calls,        \* per evaluation: number of calls of its init
  returned,     \* per evaluation: number of calls of its init that returned normally
  faulted,      \* per evaluation: a call of its init ended by an uncaught exception
  children,     \* container node -> sequence of child nodes
  inputType,    \* input -> value of its type attribute
  pwToggle,     \* input -> dataset.pwToggle ("unset" when the attribute is absent)
  markup,       \* input -> type attribute the page's markup gave it
  btns,         \* button -> [aria, show, hide, listeners]
  effects,      \* per evaluation: nodes its init has written to or created
  clicks,       \* input -> number of click-handler runs on it
  pc,           \* position of the running init ("idle" when no script runs)
  callQueue,    \* evaluations whose init the current dispatch still has to call
  list,         \* the NodeList of the running init
  idx,          \* index of forEach in list
  wrap,         \* local variable wrap of the running callback
  btn           \* local variable btn of the running callback

domVars == <<children, inputType, pwToggle, btns>>
frameVars == <<pc, callQueue, list, idx, wrap, btn>>
lifeVars == <<readyState, dclFired, dclListeners, sched>>
countVars == <<calls, returned, faulted, effects>>
vars == <<readyState, dclFired, dclListeners, sched, calls, returned, faulted,
          children, inputType, pwToggle, markup, btns, effects, clicks,
          pc, callQueue, list, idx, wrap, btn>>

\* ----- nodes
Null == <<"null", 0>>
Body == <<"body", 0>>
Form == <<"form", 1>>
Inputs == {<<"input", i>> : i \in 1..NInputs}
Evals == 1..MaxEvals
PageContainers == {Body, Form}
Wrappers == {c \in DOMAIN children : c[1] = "wrap"}
Buttons == DOMAIN btns

\* ----- sequences
InsertAt(s, p, x) == SubSeq(s, 1, p - 1) \o <<x>> \o SubSeq(s, p, Len(s))
IndexOf(s, x) == CHOOSE i \in 1..Len(s) : s[i] = x
Remove(s, x) == SelectSeq(s, LAMBDA y : y # x)
Range(s) == {s[i] : i \in 1..Len(s)}

\* node.parentNode
ParentIn(ch, n) ==
  IF \E c \in DOMAIN ch : n \in Range(ch[c])
    THEN CHOOSE c \in DOMAIN ch : n \in Range(ch[c])
    ELSE Null
Parent(n) == ParentIn(children, n)

\* the subtree of n in document order (n first)
RECURSIVE PreorderSeq(_, _)
RECURSIVE Preorder(_, _)
PreorderSeq(ch, s) ==
  IF s = <<>> THEN <<>> ELSE Preorder(ch, Head(s)) \o PreorderSeq(ch, Tail(s))
Preorder(ch, n) ==
  IF n \in DOMAIN ch THEN <<n>> \o PreorderSeq(ch, ch[n]) ELSE <<n>>

\* the elements of the document, in document order
Document == Preorder(children, Body)
Attached(n) == n \in Range(Document)

\* mutant: the password inputs the page has created, attached or not
QuerySelectorAllDetached ==
  SelectSeq([k \in 1..NInputs |-> <<"input", k>>], LAMBDA n : inputType[n] = "password")

\* mutant: the selector 'input', without the type test
QuerySelectorAllInputs == SelectSeq(Document, LAMBDA n : n \in Inputs)

\* document.querySelectorAll('input[type="password"]')
QuerySelectorAll ==
  SelectSeq(Document, LAMBDA n : n \in Inputs /\ inputType[n] = "password")

\* mutant: document.querySelector, the first icon of the whole document
QuerySelectorIconDocument(ch, w) ==
  LET all == SelectSeq(Preorder(ch, Body), LAMBDA n : n[1] = "btn")
  IN IF all = <<>> THEN Null ELSE Head(all)

\* wrap.querySelector('.pw-toggle-show') / ('.pw-toggle-hide'): both icons of a
\* button are its children, so the first match below w is in the first button
\* below w in document order; Null when there is none
QuerySelectorIcon(ch, w) ==
  LET below == SelectSeq(Tail(Preorder(ch, w)), LAMBDA n : n[1] = "btn")
  IN IF below = <<>> THEN Null ELSE Head(below)

TypeOK ==
  /\ readyState \in {"loading", "interactive", "complete"}
  /\ dclFired \in BOOLEAN
  /\ sched \in [Evals -> {"none", "deferred", "immediate"}]
  /\ inputType \in [Inputs -> {"password", "text"}]
  /\ pwToggle \in [Inputs -> {"unset", "done"}]
  /\ pc \in {"idle", "call", "check", "mark", "insert", "move", "button", "bind", "return"}

\* ----- initial states: the page starts loading with an empty body that holds
\* the form; the parser, and later the page's scripts, attach the inputs
InitDocument == (Body :> <<Form>>) @@ (Form :> <<>>)

Init ==
  /\ readyState = "loading"
  /\ dclFired = FALSE
  /\ dclListeners = <<>>
  /\ sched = [e \in Evals |-> "none"]
  /\ calls = [e \in Evals |-> 0]
  /\ returned = [e \in Evals |-> 0]
  /\ faulted = [e \in Evals |-> FALSE]
  /\ children = InitDocument
  /\ markup \in [Inputs -> {"password", "text"}]
  /\ inputType = markup
  /\ pwToggle = [i \in Inputs |-> "unset"]
  /\ btns = <<>>
  /\ effects = [e \in Evals |-> {}]
  /\ clicks = [i \in Inputs |-> 0]
  /\ pc = "idle"
  /\ callQueue = <<>>
  /\ list = <<>>
  /\ idx = 0
  /\ wrap = Null
  /\ btn = Null

\* ----- the page and the browser
\* the page (its parser while loading, a script later) appends an input that
\* is not in the document yet to the body or to the form; the inputs are
\* numbered in the order the page attaches them
Attach(i, c) ==
  /\ pc = "idle"
  /\ ~Attached(i)
  /\ \A j \in Inputs : j[2] < i[2] => Attached(j)
  /\ children' = [children EXCEPT ![c] = Append(@, i)]
  /\ UNCHANGED <<inputType, pwToggle, markup, btns, clicks>>
  /\ UNCHANGED <<lifeVars, countVars, frameVars>>

ParserDone ==
  /\ pc = "idle"
  /\ readyState = "loading"
  /\ readyState' = "interactive"
  /\ UNCHANGED <<dclFired, dclListeners, sched, countVars, domVars, markup, clicks, frameVars>>

\* dispatch of DOMContentLoaded: every registered listener is called, in order
FireDCL ==
  /\ pc = "idle"
  /\ readyState = "interactive"
  /\ ~dclFired
  /\ dclFired' = TRUE
  /\ callQueue' = dclListeners
  /\ pc' = IF dclListeners = <<>> THEN "idle" ELSE "call"
  /\ UNCHANGED <<readyState, dclListeners, sched, countVars, domVars, markup, clicks,
                 list, idx, wrap, btn>>

\* mutant: init is bound to the load event as well
LoadCompleteRunsInit ==
  /\ pc = "idle"
  /\ readyState = "interactive"
  /\ dclFired
  /\ readyState' = "complete"
  /\ callQueue' = dclListeners
  /\ pc' = IF dclListeners = <<>> THEN "idle" ELSE "call"
  /\ UNCHANGED <<dclFired, dclListeners, sched, countVars, domVars, markup, clicks,
                 list, idx, wrap, btn>>

LoadComplete ==
  /\ pc = "idle"
  /\ readyState = "interactive"
  /\ dclFired
  /\ readyState' = "complete"
  /\ UNCHANGED <<dclFired, dclListeners, sched, countVars, domVars, markup, clicks, frameVars>>

\* ----- the IIFE
\* mutants: init is never deferred; init is always deferred
ShouldDeferNever == FALSE
ShouldDeferAlways == TRUE

\* the readyState test: defer init to DOMContentLoaded, or call it now
ShouldDefer == readyState = "loading"

Evaluate(e) ==
  /\ pc = "idle"
  /\ sched[e] = "none"
  /\ \A d \in Evals : d < e => sched[d] # "none"
  /\ IF ShouldDefer
       THEN /\ dclListeners' = Append(dclListeners, e)
            /\ sched' = [sched EXCEPT ![e] = "deferred"]
            /\ UNCHANGED <<pc, callQueue>>
       ELSE /\ callQueue' = <<e>>
            /\ pc' = "call"
            /\ sched' = [sched EXCEPT ![e] = "immediate"]
            /\ UNCHANGED dclListeners
  /\ UNCHANGED <<readyState, dclFired, countVars, domVars, markup, clicks, list, idx, wrap, btn>>

\* ----- init: one step per statement that changes the document
\* mutant: the guard never skips a field
AlreadyDoneNever(i) == FALSE

\* input.dataset.pwToggle === 'done'
AlreadyDone(i) == pwToggle[i] = "done"

\* mutant: the wrapper is appended to the parent instead
InsertBeforeAtEnd(ch, parent, w, ref) == [ch EXCEPT ![parent] = Append(@, w)]

\* parent.insertBefore(w, ref)
InsertBefore(ch, parent, w, ref) ==
  [ch EXCEPT ![parent] = InsertAt(@, IndexOf(@, ref), w)]

\* mutant: the node is not taken out of its old parent (a copy is appended)
AppendChildCopy(ch, parent, n) == [ch EXCEPT ![parent] = Append(@, n)]

\* parent.appendChild(n): n leaves its old parent, if it has one
AppendChild(ch, parent, n) ==
  LET old == ParentIn(ch, n)
      removed == IF old = Null THEN ch ELSE [ch EXCEPT ![old] = Remove(@, n)]
  IN [removed EXCEPT ![parent] = Append(@, n)]

\* the button as createElement, setAttribute and innerHTML leave it
NewButton ==
  [aria |-> "Show password", show |-> "", hide |-> "none", listeners |-> <<>>]

\* the closure addEventListener binds
NewListener(i, b, w) == [input |-> i, btn |-> b, wrap |-> w]

\* mutant: the handler is not bound
AddEventListenerNone(ls, h) == ls

\* btn.addEventListener('click', h) on the listener list ls of the button
AddEventListener(ls, h) == Append(ls, h)

Input == list[idx]
Running == Head(callQueue)

\* the current call of init ends: the dispatch calls the next listener, if any
Leave ==
  /\ callQueue' = Tail(callQueue)
  /\ pc' = IF Tail(callQueue) = <<>> THEN "idle" ELSE "call"
  /\ list' = <<>>
  /\ idx' = 0
  /\ wrap' = Null
  /\ btn' = Null

\* the callback returns: forEach goes to the next element of the NodeList
NextInput ==
  /\ idx' = idx + 1
  /\ pc' = IF idx + 1 > Len(list) THEN "return" ELSE "check"
  /\ wrap' = Null
  /\ btn' = Null
  /\ UNCHANGED <<callQueue, list>>

InitCall ==
  /\ pc = "call"
  /\ calls' = [calls EXCEPT ![Running] = @ + 1]
  /\ list' = QuerySelectorAll
  /\ idx' = 1
  /\ pc' = IF QuerySelectorAll = <<>> THEN "return" ELSE "check"
  /\ UNCHANGED <<callQueue, wrap, btn, returned, faulted, effects>>
  /\ UNCHANGED <<lifeVars, domVars, markup, clicks>>

Check ==
  /\ pc = "check"
  /\ IF AlreadyDone(Input)
       THEN NextInput
       ELSE pc' = "mark" /\ UNCHANGED <<callQueue, list, idx, wrap, btn>>
  /\ UNCHANGED <<lifeVars, countVars, domVars, markup, clicks>>

\* mutant: the marker is not written
MarkNothing ==
  /\ pc = "mark"
  /\ pc' = "insert"
  /\ UNCHANGED <<callQueue, list, idx, wrap, btn>>
  /\ UNCHANGED <<lifeVars, countVars, domVars, markup, clicks>>

Mark ==
  /\ pc = "mark"
  /\ pwToggle' = [pwToggle EXCEPT ![Input] = "done"]
  /\ effects' = [effects EXCEPT ![Running] = @ \cup {Input}]
  /\ pc' = "insert"
  /\ UNCHANGED <<callQueue, list, idx, wrap, btn, calls, returned, faulted>>
  /\ UNCHANGED <<lifeVars, children, inputType, btns, markup, clicks>>

\* createElement('div') and input.parentNode.insertBefore(wrap, input); a null
\* parentNode makes the call throw, which ends forEach and init
Insert ==
  /\ pc = "insert"
  /\ IF Parent(Input) = Null
       THEN /\ faulted' = [faulted EXCEPT ![Running] = TRUE]
            /\ Leave
            /\ UNCHANGED <<children, effects>>
       ELSE LET w == <<"wrap", Cardinality(Wrappers) + 1>>
            IN /\ children' = InsertBefore(children @@ (w :> <<>>), Parent(Input), w, Input)
               /\ wrap' = w
               /\ effects' = [effects EXCEPT ![Running] = @ \cup {w}]
               /\ pc' = "move"
               /\ UNCHANGED <<callQueue, list, idx, btn, faulted>>
  /\ UNCHANGED <<calls, returned>>
  /\ UNCHANGED <<lifeVars, inputType, pwToggle, btns, markup, clicks>>

Move ==
  /\ pc = "move"
  /\ children' = AppendChild(children, wrap, Input)
  /\ pc' = "button"
  /\ UNCHANGED <<callQueue, list, idx, wrap, btn>>
  /\ UNCHANGED <<lifeVars, countVars, inputType, pwToggle, btns, markup, clicks>>

Button ==
  /\ pc = "button"
  /\ LET b == <<"btn", Cardinality(Buttons) + 1>>
     IN /\ btns' = btns @@ (b :> NewButton)
        /\ children' = AppendChild(children, wrap, b)
        /\ btn' = b
        /\ effects' = [effects EXCEPT ![Running] = @ \cup {b}]
  /\ pc' = "bind"
  /\ UNCHANGED <<callQueue, list, idx, wrap, calls, returned, faulted>>
  /\ UNCHANGED <<lifeVars, inputType, pwToggle, markup, clicks>>

Bind ==
  /\ pc = "bind"
  /\ btns' = [btns EXCEPT ![btn].listeners = AddEventListener(@, NewListener(Input, btn, wrap))]
  /\ NextInput
  /\ UNCHANGED <<lifeVars, countVars, children, inputType, pwToggle, markup, clicks>>

Return ==
  /\ pc = "return"
  /\ returned' = [returned EXCEPT ![Running] = @ + 1]
  /\ Leave
  /\ UNCHANGED <<calls, faulted, effects>>
  /\ UNCHANGED <<lifeVars, domVars, markup, clicks>>

\* ----- the click handler
\* mutants: the handler never restores the type; the show icon is never hidden
ToggledTypeText(isPassword) == "text"
ShowDisplayAlways(isPassword) == ""

ToggledType(isPassword) == IF isPassword THEN "text" ELSE "password"
\* mutant: the label is never changed
AriaLabelShow(isPassword) == "Show password"
AriaLabel(isPassword) == IF isPassword THEN "Hide password" ELSE "Show password"
ShowDisplay(isPassword) == IF isPassword THEN "none" ELSE ""
HideDisplay(isPassword) == IF isPassword THEN "" ELSE "none"

\* one run of the handler h on the state d = [type, btns]; a querySelector
\* that finds no icon returns null and the handler throws at that statement
ClickHandler(h, d) ==
  LET isPassword == d.type[h.input] = "password"
      type1 == [d.type EXCEPT ![h.input] = ToggledType(isPassword)]
      btns1 == [d.btns EXCEPT ![h.btn].aria = AriaLabel(isPassword)]
      icons == QuerySelectorIcon(children, h.wrap)
  IN [type |-> type1,
      btns |-> IF icons = Null
                 THEN btns1
                 ELSE [btns1 EXCEPT ![icons].show = ShowDisplay(isPassword),
                                    ![icons].hide = HideDisplay(isPassword)]]

RECURSIVE RunListeners(_, _)
RunListeners(hs, d) ==
  IF hs = <<>> THEN d ELSE RunListeners(Tail(hs), ClickHandler(Head(hs), d))

RECURSIVE SumOver(_, _)
SumOver(f, S) ==
  IF S = {} THEN 0 ELSE LET x == CHOOSE x \in S : TRUE IN f[x] + SumOver(f, S \ {x})
TotalClicks == SumOver(clicks, Inputs)

\* the user clicks button b: its click listeners run, in order
Click(b) ==
  /\ pc = "idle"
  /\ Attached(b)
  /\ btns[b].listeners # <<>>
  /\ TotalClicks < MaxClicks
  /\ LET d == RunListeners(btns[b].listeners, [type |-> inputType, btns |-> btns])
     IN /\ inputType' = d.type
        /\ btns' = d.btns
  /\ clicks' = [i \in Inputs |->
                  clicks[i] + Len(SelectSeq(btns[b].listeners, LAMBDA h : h.input = i))]
  /\ UNCHANGED <<children, pwToggle, markup>>
  /\ UNCHANGED <<lifeVars, countVars, frameVars>>

InitStep == InitCall \/ Check \/ Mark \/ Insert \/ Move \/ Button \/ Bind \/ Return

Next ==
  \/ \E i \in Inputs, c \in PageContainers : Attach(i, c)
  \/ ParserDone
  \/ FireDCL
  \/ LoadComplete
  \/ \E e \in Evals : Evaluate(e)
  \/ InitStep
  \/ \E b \in Buttons : Click(b)

Spec == Init /\ [][Next]_vars

\* the browser ends parsing and dispatches DOMContentLoaded, and a script that
\* runs goes on to its end
FairSpec ==
  Spec /\ WF_vars(ParserDone) /\ WF_vars(FireDCL) /\ WF_vars(InitStep)

\* ----- notions the claims use
Marked(i) == pwToggle[i] = "done"
Masked(i) == inputType[i] = "password"
\* the wrappers around i, the buttons beside i in its wrapper, the buttons bound to i
WrappersAround(i) == {w \in Wrappers : i \in Range(Tail(Preorder(children, w)))}
ButtonsBeside(i) == {b \in Buttons : Parent(b) = Parent(i) /\ Parent(i) \in Wrappers}
ButtonsBoundTo(i) == {b \in Buttons : \E h \in Range(btns[b].listeners) : h.input = i}
NoScriptRuns == pc = "idle"
\* init is between the first and the last mutation it makes for one field
InsideField == pc \in {"insert", "move", "button", "bind"}
ShowVisible(b) == btns[b].show = ""
HideVisible(b) == btns[b].hide = ""

\* C1 (idempotence of install): however many times init runs, and whatever is
\* clicked in between, no field is ever inside two wrappers and none ever has two
\* buttons or two bound handlers; whenever no script runs a marked field has
\* exactly one wrapper, one button and one handler, an unmarked field has none,
\* and there are as many wrappers and as many buttons as marked fields.
IdempotentInstall ==
  /\ \A i \in Inputs :
       /\ Cardinality(WrappersAround(i)) <= 1
       /\ Cardinality(ButtonsBeside(i)) <= 1
       /\ Cardinality(ButtonsBoundTo(i)) <= 1
       /\ \A b \in ButtonsBoundTo(i) : Len(btns[b].listeners) = 1
       /\ NoScriptRuns =>
            LET n == IF Marked(i) THEN 1 ELSE 0
            IN /\ Cardinality(WrappersAround(i)) = n
               /\ Cardinality(ButtonsBeside(i)) = n
               /\ Cardinality(ButtonsBoundTo(i)) = n
  /\ NoScriptRuns =>
       /\ Cardinality(Wrappers) = Cardinality({i \in Inputs : Marked(i)})
       /\ Cardinality(Buttons) = Cardinality({i \in Inputs : Marked(i)})

\* a second init has returned after the first one enhanced a field that is still
\* a password input (so the second pass enumerated it), and a button was clicked
IdempotentInstallWitness ==
  /\ NoScriptRuns
  /\ returned[1] = 1 /\ returned[2] = 1
  /\ TotalClicks > 0
  /\ \E i \in Inputs : Marked(i) /\ i \in effects[1] /\ clicks[i] = 0 /\ Attached(i)

\* C2 (state correspondence): for every field that has its toggle button, in
\* every state, exactly one of the two icons is visible: the show icon iff the
\* field is masked (type password), the hide icon iff it is plain (type text).
IconsMatchMasking ==
  \A i \in Inputs : \A b \in ButtonsBeside(i) :
    /\ ShowVisible(b) # HideVisible(b)
    /\ ShowVisible(b) <=> Masked(i)
    /\ HideVisible(b) <=> ~Masked(i)

\* a plain field with the hide icon showing, after a click and a second install
IconsMatchMaskingWitness ==
  /\ NoScriptRuns
  /\ returned[2] = 1
  /\ \E i \in Inputs : \E b \in ButtonsBeside(i) :
       ~Masked(i) /\ HideVisible(b) /\ clicks[i] = 1

\* C3 (toggle correctness): after k clicks on the button of a processed field the
\* field is plain iff k is odd, with the label "Hide password" and the hide icon;
\* it is masked iff k is even, with the label "Show password" and the show icon.
\* So one click reveals, the second click restores.
ToggleCorrect ==
  \A i \in Inputs : \A b \in ButtonsBoundTo(i) :
    IF clicks[i] % 2 = 1
      THEN inputType[i] = "text" /\ btns[b].aria = "Hide password"
           /\ HideVisible(b) /\ ~ShowVisible(b)
      ELSE inputType[i] = "password" /\ btns[b].aria = "Show password"
           /\ ShowVisible(b) /\ ~HideVisible(b)

\* a field clicked twice is masked again
ToggleCorrectWitness ==
  \E i \in Inputs : \E b \in ButtonsBoundTo(i) :
    clicks[i] = 2 /\ Masked(i) /\ btns[b].aria = "Show password"

\* C4 (coverage): when a pass of init has gone through its NodeList, every
\* password input of the document (N of them) is marked and has exactly one
\* toggle button, and the document holds exactly N buttons; the inputs of another
\* type are never marked, wrapped, bound or retyped, in any state.
AttachedPasswordInputs == {i \in Inputs : Attached(i) /\ markup[i] = "password"}
AttachedButtons == {b \in Buttons : Attached(b)}
Coverage ==
  /\ pc = "return" =>
       /\ Cardinality(AttachedButtons) = Cardinality(AttachedPasswordInputs)
       /\ \A i \in AttachedPasswordInputs :
            Marked(i) /\ Cardinality(ButtonsBeside(i)) = 1 /\ ButtonsBeside(i) = ButtonsBoundTo(i)
  /\ \A i \in Inputs : markup[i] # "password" =>
       /\ ~Marked(i)
       /\ inputType[i] = markup[i]
       /\ Parent(i) \notin Wrappers
       /\ ButtonsBoundTo(i) = {}
       /\ \A e \in Evals : i \notin effects[e]

\* a pass ends in a document with a password input in the form and a text input
CoverageWitness ==
  /\ pc = "return"
  /\ Cardinality(AttachedButtons) = 1
  /\ \E i, j \in Inputs :
       /\ markup[i] = "password" /\ Attached(i) /\ Form \in Range(Document) /\ i \in Range(Preorder(children, Form))
       /\ markup[j] = "text" /\ Attached(j)

\* what the page sees of its own elements: for the body and the form, the
\* sequence of page elements below it, looking through the wrappers
RECURSIVE PageElements(_, _)
PageElements(ch, s) ==
  IF s = <<>> THEN <<>>
  ELSE LET n == Head(s)
           here == IF n[1] = "wrap" THEN PageElements(ch, ch[n])
                   ELSE IF n[1] = "btn" THEN <<>> ELSE <<n>>
       IN here \o PageElements(ch, Tail(s))
PageView == [c \in PageContainers |-> PageElements(children, children[c])]

\* C5 (position preservation): no step of init changes the sequence of page
\* elements of the body or of the form, looking through the wrappers: the
\* wrapper takes the slot of its field, and no page element is reordered,
\* removed or moved to another container.
PositionPreserved == [][pc # "idle" => PageView' = PageView]_vars

\* a wrapper stands between two siblings, in the slot of the field it holds
PositionPreservedWitness ==
  /\ NoScriptRuns
  /\ \E w \in Wrappers :
       LET sibs == children[Parent(w)]
       IN /\ 1 < IndexOf(sibs, w) /\ IndexOf(sibs, w) < Len(sibs)
          /\ \E i \in Inputs : i \in Range(children[w])

\* C6 (deferred trigger): while the document is loading no init has been called
\* and the document carries no marker, wrapper, button or handler; an init
\* deferred to DOMContentLoaded has had no effect before that event is dispatched.
Pristine ==
  /\ \A i \in Inputs : ~Marked(i)
  /\ Wrappers = {}
  /\ Buttons = {}
DeferredTrigger ==
  /\ readyState = "loading" => Pristine /\ \A e \in Evals : calls[e] = 0
  /\ \A e \in Evals : sched[e] = "deferred" /\ ~dclFired =>
       calls[e] = 0 /\ effects[e] = {}

\* an init deferred while loading has enhanced a field, after the event
DeferredTriggerWitness ==
  \E e \in Evals : sched[e] = "deferred" /\ dclFired /\ returned[e] = 1
                   /\ \E i \in Inputs : i \in effects[e] /\ Parent(i) \in Wrappers

\* C7 (exactly-once scheduling): the init of an evaluation is never called
\* twice; evaluated after loading it is called at once, before any other event;
\* evaluated while loading it is not called before DOMContentLoaded, and it is
\* called and returns once the event is dispatched; every evaluation gets its one
\* call in the end.
ExactlyOnce ==
  /\ [](\A e \in Evals :
          /\ calls[e] <= 1
          /\ sched[e] = "none" => calls[e] = 0
          /\ sched[e] = "immediate" => calls[e] = 1 \/ (pc = "call" /\ callQueue = <<e>>)
          /\ sched[e] = "deferred" /\ ~dclFired => calls[e] = 0)
  /\ \A e \in Evals :
       /\ (sched[e] = "deferred" /\ dclFired) ~> (calls[e] = 1 /\ returned[e] = 1)
       /\ (sched[e] # "none") ~> (calls[e] = 1 /\ returned[e] = 1)

\* one evaluation was deferred, the other ran at once, and each init ran once
ExactlyOnceWitness ==
  /\ NoScriptRuns
  /\ sched[1] = "deferred" /\ sched[2] = "immediate"
  /\ \A e \in Evals : calls[e] = 1 /\ returned[e] = 1

\* C9 (empty document): in a document with no password-type input a call of
\* init changes no child list, no attribute, no button and binds nothing, and it
\* returns normally.
NoPasswordInputs == \A i \in Inputs : Attached(i) => inputType[i] # "password"
EmptyDocument ==
  [][(pc # "idle" /\ NoPasswordInputs) =>
       /\ domVars' = domVars
       /\ faulted' = faulted
       /\ pc = "call" => pc' = "return"
       /\ pc = "return" => returned'[Running] = returned[Running] + 1]_vars

\* init is about to return from a document that holds a text input only
EmptyDocumentWitness ==
  /\ pc = "return"
  /\ NoPasswordInputs
  /\ list = <<>>
  /\ calls[Running] = 1
  /\ \E i \in Inputs : Attached(i)

\* C10 (marker implies enhanced), as stated: in every state a marked field is
\* the child of a wrapper that also holds a button with a click handler bound to
\* the field.  The code sets the marker first (line 9), so this fails between
\* the marker write and the binding of the handler.
Enhanced(i) ==
  /\ Parent(i) \in Wrappers
  /\ \E b \in ButtonsBeside(i) : b \in ButtonsBoundTo(i)
MarkerImpliesEnhanced == \A i \in Inputs : Marked(i) => Enhanced(i)

\* C10, amended: in every state in which init is not between the marker write
\* and the binding of the handler of a field (so whenever no script runs), a
\* marked field is the child of a wrapper that also holds a button with a click
\* handler bound to the field.
MarkerImpliesEnhancedOutsideField ==
  ~InsideField => \A i \in Inputs : Marked(i) => Enhanced(i)

\* no script runs and a marked field is wrapped and bound
MarkerImpliesEnhancedWitness ==
  NoScriptRuns /\ \E i \in Inputs : Marked(i) /\ Enhanced(i)

\* C8 (graceful degradation on fault): a field at which init faulted has no
\* wrapper and no button and is still masked.  No reachable state has a faulted
\* init: querySelectorAll enumerates elements of the document only, and each of
\* them has a parent node when Insert reaches it.
FaultLeavesFieldPlain ==
  \A e \in Evals : faulted[e] =>
    \A i \in Inputs : Marked(i) /\ ~Enhanced(i) /\ ~InsideField =>
      WrappersAround(i) = {} /\ ButtonsBoundTo(i) = {} /\ Masked(i)

\* C11 (marker-first ordering): init changes nothing of the document for a field
\* before it has marked it: a step of init that changes the document is either
\* the marker write itself, which changes the marker of the current field only
\* and finds that field unwrapped and without button, or it works on a field
\* already marked; and a field that Check finds marked is skipped: that step
\* changes nothing of the document and forEach goes on to the next element.
MarkerFirst ==
  [][pc # "idle" =>
       /\ domVars' # domVars =>
            IF pc = "mark"
              THEN /\ <<children, inputType, btns>>' = <<children, inputType, btns>>
                   /\ pwToggle' = [pwToggle EXCEPT ![Input] = "done"]
                   /\ WrappersAround(Input) = {}
                   /\ ButtonsBoundTo(Input) = {}
              ELSE Marked(Input)
       /\ (pc = "check" /\ Marked(Input)) =>
            /\ domVars' = domVars
            /\ pc' \in {"check", "return"}
            /\ idx' = idx + 1]_vars

\* the marker of the current field is written and nothing else is done yet
MarkerFirstWitness ==
  /\ pc = "insert"
  /\ Marked(Input)
  /\ Parent(Input) \in PageContainers
  /\ wrap = Null
  /\ Cardinality(Wrappers) = Cardinality({i \in Inputs : Marked(i)}) - 1

\* C12 (label correspondence): in every state the label of the toggle button of
\* a field is "Show password" iff the field is masked and "Hide password" iff it
\* is plain; a button starts with "Show password".
LabelMatchesMasking ==
  \A i \in Inputs : \A b \in ButtonsBeside(i) :
    /\ btns[b].aria \in {"Show password", "Hide password"}
    /\ btns[b].aria = "Show password" <=> Masked(i)
    /\ btns[b].aria = "Hide password" <=> ~Masked(i)
    /\ clicks[i] = 0 => btns[b].aria = "Show password"

\* one field is plain with the label "Hide password", the other was never
\* clicked and has "Show password"
LabelMatchesMaskingWitness ==
  \E i, j \in Inputs : \E b \in ButtonsBeside(i), c \in ButtonsBeside(j) :
    /\ ~Masked(i) /\ btns[b].aria = "Hide password"
    /\ clicks[j] = 0 /\ Masked(j) /\ btns[c].aria = "Show password"

\* C13 (field independence): a click on the button of one field changes the type
\* of that field, and the label and the icons of that button, and nothing else:
\* the type, marker, click count and tree position of every other field and the
\* whole state of every other button stay as they were, and no node moves.
FieldIndependence ==
  [][\A i \in Inputs : clicks'[i] # clicks[i] =>
       /\ children' = children
       /\ pwToggle' = pwToggle
       /\ DOMAIN btns' = DOMAIN btns
       /\ \A j \in Inputs \ {i} :
            inputType'[j] = inputType[j] /\ clicks'[j] = clicks[j]
       /\ \A b \in Buttons \ ButtonsBeside(i) : btns'[b] = btns[b]
       /\ \A b \in ButtonsBeside(i) : btns'[b].listeners = btns[b].listeners]_vars

\* both fields have their button and each was clicked once
FieldIndependenceWitness ==
  \E i, j \in Inputs :
    /\ i # j
    /\ clicks[i] = 1 /\ clicks[j] = 1
    /\ ~Masked(i) /\ ~Masked(j)
    /\ ButtonsBeside(i) # {} /\ ButtonsBeside(j) # {} /\ ButtonsBeside(i) # ButtonsBeside(j)

\* how often node n occurs as a child in the tree
Occurrences(n) ==
  Cardinality({<<c, k>> \in UNION {{c} \X (1..Len(children[c])) : c \in DOMAIN children} :
                 children[c][k] = n})

\* C14 (wrapper structure): a wrapper that init is not just filling has exactly
\* two children, a field followed by its button, bound to that field; every
\* input is in the tree at most once (the field is moved, not copied); and a
\* field that was never clicked is masked with the show icon visible.
WrapperStructure ==
  /\ \A w \in Wrappers : (w = wrap /\ pc \in {"move", "button"}) \/
       /\ Len(children[w]) = 2
       /\ children[w][1] \in Inputs
       /\ children[w][2] \in Buttons
       /\ (w = wrap /\ pc = "bind") \/ children[w][2] \in ButtonsBoundTo(children[w][1])
       /\ clicks[children[w][1]] = 0 =>
            /\ Masked(children[w][1])
            /\ ShowVisible(children[w][2]) /\ ~HideVisible(children[w][2])
  /\ \A i \in Inputs : Occurrences(i) <= 1
  /\ \A b \in Buttons : Occurrences(b) = 1

\* a field in the form has just been processed: its wrapper holds it and its button
WrapperStructureWitness ==
  /\ NoScriptRuns
  /\ \E w \in Wrappers :
       /\ Parent(w) = Form
       /\ children[w][1] \in Inputs /\ children[w][2] \in Buttons
       /\ clicks[children[w][1]] = 0
       /\ children[Form] = <<w>>

\* C15 (re-install preserves toggle state): no step of init changes anything of
\* a field that was processed before (marked, with its handler bound): its
\* type, its marker, its wrapper and the children of that wrapper, and the
\* label, icons and listeners of its button
\* stay as they are, whether the field is masked or plain; its button keeps
\* exactly one click handler.
Processed(i) == Marked(i) /\ ButtonsBoundTo(i) # {}
ReinstallPreserves ==
  [][pc # "idle" =>
       \A i \in Inputs : Processed(i) =>
         /\ inputType'[i] = inputType[i]
         /\ pwToggle'[i] = pwToggle[i]
         /\ ParentIn(children', i) = Parent(i)
         /\ children'[Parent(i)] = children[Parent(i)]
         /\ \A b \in ButtonsBeside(i) :
              btns'[b] = btns[b] /\ Len(btns'[b].listeners) = 1]_vars

\* the init of the second evaluation has gone through a document in which a
\* processed field is plain, with the label "Hide password" and the hide icon
ReinstallPreservesWitness ==
  /\ pc = "return"
  /\ Running = 2
  /\ returned[1] = 1
  /\ \E i \in Inputs : \E b \in ButtonsBeside(i) :
       /\ i \in effects[1]
       /\ ~Masked(i) /\ btns[b].aria = "Hide password" /\ HideVisible(b)
  /\ \E j \in Inputs : j \in effects[1] /\ Masked(j)

\* C16 (insertion never faults): every field still ahead in the NodeList of the
\* running init is in the document and has a parent node, also after earlier
\* fields of the pass were wrapped; no init ever faults; when a pass is through
\* its NodeList every field of it is marked, wrapped and bound.
InsertionNeverFaults ==
  /\ \A e \in Evals : ~faulted[e]
  /\ pc \in {"check", "mark", "insert", "move", "button", "bind"} =>
       \A k \in idx..Len(list) : Attached(list[k]) /\ Parent(list[k]) # Null
  /\ pc = "return" =>
       \A k \in 1..Len(list) : Marked(list[k]) /\ Enhanced(list[k])
  /\ NoScriptRuns => \A e \in Evals : returned[e] = calls[e]

\* init is about to insert the wrapper of the second field of a pass, whose first
\* field was wrapped in the same parent
InsertionNeverFaultsWitness ==
  /\ pc = "insert"
  /\ idx = 2
  /\ Parent(list[1]) \in Wrappers
  /\ Parent(Parent(list[1])) = Parent(list[2])
  /\ list[1] \in effects[Running]

\* C17 (no automatic second pass): when no init runs or waits for
\* DOMContentLoaded, only a new evaluation of the script starts a pass: every
\* other step (an input the page adds, a click, the rest of the page load) calls
\* no init and leaves markers, wrappers and buttons as they are, so an input added
\* after the pass stays unmarked, unwrapped and without button.
NothingScheduled == pc = "idle" /\ (dclFired \/ dclListeners = <<>>)
NoSecondPass ==
  [][(NothingScheduled /\ sched' = sched) =>
       /\ pc' = "idle"
       /\ calls' = calls
       /\ pwToggle' = pwToggle
       /\ DOMAIN children' = DOMAIN children
       /\ DOMAIN btns' = DOMAIN btns
       /\ NothingScheduled']_vars

\* every evaluation has had its pass, and the document holds a password input
\* that is not marked and not wrapped: the page added it after the last pass
NoSecondPassWitness ==
  /\ NoScriptRuns
  /\ readyState = "complete"
  /\ \A e \in Evals : returned[e] = 1
  /\ \E i \in Inputs : Attached(i) /\ Masked(i) /\ ~Marked(i) /\ Parent(i) \in PageContainers
  /\ \E j \in Inputs : Marked(j)
=============================================================================
